---- MODULE Spec2Model ----
(***************************************************************************)
(* The campaign execution engine of src/main.py: start_campaign (submit),  *)
(* the worker thread run_campaign, stop_campaign and campaign_status, over *)
(* the in-memory registry CAMPAIGNS and the PostgreSQL table campaigns.    *)
(*                                                                         *)
(* Threads: start_campaign is an `async def` endpoint, so its body runs on *)
(* the single event-loop thread and two submissions never interleave      *)
(* (there is no await after line 373).  stop_campaign and campaign_status  *)
(* are plain `def` endpoints, which FastAPI runs on a thread pool, and     *)
(* every campaign has its own worker thread (line 409).  A step of the     *)
(* model is one statement of one thread that reads or writes shared state; *)
(* the argument tuple of update_campaign_db_stats (lines 269-278) is read  *)
(* in one step and the UPDATE is committed in a later one.                 *)
(***************************************************************************)
EXTENDS Integers, Sequences, FiniteSets, TLC

VARIABLES
    _campaign_counter,  \* line 32
    _campaign_lock,     \* line 33: 0 when free, else the request holding it
    CAMPAIGNS,          \* line 31: campaign_id -> in-memory entry
    db,                 \* table campaigns (lines 79-94): campaign_id -> row
    submit,             \* start_campaign requests: position and locals
    worker,             \* run_campaign threads: campaign_id -> position and locals
    stops,              \* stop_campaign requests: position and locals
    sendLog,            \* per campaign, the calls made to send_email_smtp
    waits,              \* per campaign, the number of time.sleep(delay) calls
    pushes,             \* per campaign, the counters each committed line-349 update carried
    writeFailed         \* campaigns one of whose storage calls has raised

vars == <<_campaign_counter, _campaign_lock, CAMPAIGNS, db, submit, worker,
          stops, sendLog, waits, pushes, writeFailed>>

\* ---------------------------------------------------------------- bounds
MaxCallers == 2     \* submissions side by side (SpecSubmit, SpecPair)
MaxContacts == 3    \* recipients in one contacts file
MaxStops == 1       \* stop_campaign requests in the life of one campaign

\* ------------------------------------------------------------ input sets
Users == {"user1", "user2"}
DefaultSpeed == 60  \* line 369: speed_per_minute: int = Form(60)
None == "None"

Requests == DOMAIN submit
StopRequests == DOMAIN stops

\* ------------------------------------------------------- pure operators
\* line 379: f"{current_user}-{_campaign_counter}"
MakeId(current_user, counter) == current_user \o "-" \o ToString(counter)

\* line 378: _campaign_counter += 1
NextCounter(counter) == counter + 1

\* line 344: str(e), the description of the failure of the send to contacts[idx]
ErrorText(idx) == "error-" \o ToString(idx)

\* line 392: max(1, speed_per_minute)
\* the submitted speed stored as it came
ClampSpeedNone(speed_per_minute) == speed_per_minute

ClampSpeed(speed_per_minute) == IF speed_per_minute > 1 THEN speed_per_minute ELSE 1

\* line 317, in milliseconds: 60.0 / speed if speed > 0 else 0.0
Delay(speed) == IF speed > 0 THEN 60000 \div speed ELSE 0

\* lines 382-403: the in-memory structure for the worker
NewEntry(current_user, speed_per_minute, total) ==
    [user |-> current_user,
     speed_per_minute |-> ClampSpeed(speed_per_minute),
     total |-> total,
     status |-> "queued",
     processed |-> 0, sent |-> 0, failed |-> 0,
     delivered |-> 0, bounced |-> 0,
     last_error |-> None]

\* lines 240-244: the row INSERTed by create_campaign_db
NewRow(username, total) ==
    [username |-> username,
     total |-> total,
     status |-> "queued",
     processed |-> 0, sent |-> 0, failed |-> 0,
     delivered |-> 0, bounced |-> 0,
     last_error |-> None]

\* lines 269-278: the values update_campaign_db_stats reads from camp
Snapshot(camp) ==
    [status |-> camp.status,
     processed |-> camp.processed, sent |-> camp.sent, failed |-> camp.failed,
     delivered |-> camp.delivered, bounced |-> camp.bounced,
     last_error |-> camp.last_error]

NoSnap ==
    [status |-> "none", processed |-> 0, sent |-> 0, failed |-> 0,
     delivered |-> 0, bounced |-> 0, last_error |-> None]

\* lines 256-280: UPDATE campaigns SET ... WHERE campaign_id = %s
UpdateStats(table, campaign_id, snap) ==
    IF campaign_id \in DOMAIN table
    THEN [table EXCEPT ![campaign_id] =
            [@ EXCEPT !.status = snap.status,
                      !.processed = snap.processed,
                      !.sent = snap.sent,
                      !.failed = snap.failed,
                      !.delivered = snap.delivered,
                      !.bounced = snap.bounced,
                      !.last_error = snap.last_error]]
    ELSE table

\* a WHERE clause that leaves the username out
RowMatchesAnyUser(table, campaign_id, username) == campaign_id \in DOMAIN table

\* line 295: WHERE campaign_id = %s AND username = %s
RowMatches(table, campaign_id, username) ==
    campaign_id \in DOMAIN table /\ table[campaign_id].username = username

\* lines 290-299: UPDATE campaigns SET status WHERE campaign_id AND username
SetStatus(table, campaign_id, username, new_status) ==
    IF RowMatches(table, campaign_id, username)
    THEN [table EXCEPT ![campaign_id].status = new_status]
    ELSE table

\* lines 427-453: the SELECT of campaign_status and its 404
NotFound == [status |-> "NotFound"]
campaign_status(campaign_id, current_user) ==
    IF campaign_id \in DOMAIN db /\ db[campaign_id].username = current_user
    THEN [status |-> db[campaign_id].status,
          processed |-> db[campaign_id].processed,
          sent |-> db[campaign_id].sent,
          failed |-> db[campaign_id].failed,
          delivered |-> db[campaign_id].delivered,
          bounced |-> db[campaign_id].bounced,
          last_error |-> db[campaign_id].last_error,
          total |-> db[campaign_id].total]
    ELSE NotFound

\* the ids a client can name in a request
PossibleIds == {MakeId(u, n) : u \in Users, n \in Requests}

\* ------------------------------------------------------------------ Init
IdleSubmit == [pc |-> "idle", user |-> None, speed |-> 0, total |-> 0,
               tmp |-> 0, cid |-> None, resp |-> None]
IdleStop == [pc |-> "idle", user |-> None, cid |-> None, snap |-> NoSnap,
             at |-> -1, inflight |-> FALSE, was |-> None]

\* the state after import (lines 31-33) and init_db, with the requests the
\* run will receive: nSubmit start_campaign and nStop stop_campaign requests
InitWith(nSubmit, nStop) ==
    /\ _campaign_counter = 0
    /\ _campaign_lock = 0
    /\ CAMPAIGNS = << >>
    /\ db = << >>
    /\ submit = [r \in 1..nSubmit |-> IdleSubmit]
    /\ worker = << >>
    /\ stops = [i \in 1..nStop |-> IdleStop]
    /\ sendLog = << >>
    /\ waits = << >>
    /\ pushes = << >>
    /\ writeFailed = {}

\* ------------------------------------------------- start_campaign (submit)
\* The event loop runs one start_campaign body at a time.
LoopIdle == \A q \in Requests : submit[q].pc \in {"idle", "done"}

\* lines 360-374: a request arrives with its form fields and parsed contacts
\* (parse_contacts_file raises on an empty list, so total >= 1)
ArriveWith(r, speeds, totals) ==
    /\ submit[r].pc = "idle"
    /\ \A q \in 1..(r - 1) : submit[q].pc # "idle"
    /\ \E u \in Users, sp \in speeds, n \in totals :
         submit' = [submit EXCEPT ![r] =
                      [@ EXCEPT !.pc = "acquire", !.user = u, !.speed = sp, !.total = n]]
    /\ UNCHANGED <<_campaign_counter, _campaign_lock, CAMPAIGNS, db, worker,
                   stops, sendLog, waits, pushes, writeFailed>>

Arrive(r, speeds) == ArriveWith(r, speeds, 1..MaxContacts)

\* start_campaign as FastAPI runs it: on the event loop
SubmitBegin(r) == LoopIdle /\ Arrive(r, {DefaultSpeed})

\* the id allocation without the with block of line 377
CanAcquireUnlocked(lock) == TRUE

\* line 377: with _campaign_lock (threading.Lock: free or held)
CanAcquire(lock) == lock = 0

SubmitAcquire(r) ==
    /\ submit[r].pc = "acquire"
    /\ CanAcquire(_campaign_lock)
    /\ _campaign_lock' = r
    /\ submit' = [submit EXCEPT ![r].pc = "load"]
    /\ UNCHANGED <<_campaign_counter, CAMPAIGNS, db, worker, stops, sendLog,
                   waits, pushes, writeFailed>>

\* line 378: _campaign_counter += 1 loads the global ...
SubmitLoad(r) ==
    /\ submit[r].pc = "load"
    /\ submit' = [submit EXCEPT ![r].pc = "store", ![r].tmp = _campaign_counter]
    /\ UNCHANGED <<_campaign_counter, _campaign_lock, CAMPAIGNS, db, worker,
                   stops, sendLog, waits, pushes, writeFailed>>

\* ... and stores the sum
SubmitStore(r) ==
    /\ submit[r].pc = "store"
    /\ _campaign_counter' = NextCounter(submit[r].tmp)
    /\ submit' = [submit EXCEPT ![r].pc = "format", ![r].tmp = 0]
    /\ UNCHANGED <<_campaign_lock, CAMPAIGNS, db, worker, stops, sendLog,
                   waits, pushes, writeFailed>>

\* line 379: campaign_id = f"{current_user}-{_campaign_counter}"
SubmitFormat(r) ==
    /\ submit[r].pc = "format"
    /\ submit' = [submit EXCEPT ![r].pc = "release",
                                ![r].cid = MakeId(submit[r].user, _campaign_counter)]
    /\ UNCHANGED <<_campaign_counter, _campaign_lock, CAMPAIGNS, db, worker,
                   stops, sendLog, waits, pushes, writeFailed>>

\* end of the with block: the lock is released
SubmitRelease(r) ==
    /\ submit[r].pc = "release"
    /\ _campaign_lock' = IF _campaign_lock = r THEN 0 ELSE _campaign_lock
    /\ submit' = [submit EXCEPT ![r].pc = "register"]
    /\ UNCHANGED <<_campaign_counter, CAMPAIGNS, db, worker, stops, sendLog,
                   waits, pushes, writeFailed>>

\* lines 382-403: CAMPAIGNS[campaign_id] = {...}
SubmitRegister(r) ==
    /\ submit[r].pc = "register"
    /\ LET s == submit[r]
           e == NewEntry(s.user, s.speed, s.total)
       IN CAMPAIGNS' = [c \in DOMAIN CAMPAIGNS \cup {s.cid} |->
                          IF c = s.cid THEN e ELSE CAMPAIGNS[c]]
    /\ submit' = [submit EXCEPT ![r].pc = "create"]
    /\ UNCHANGED <<_campaign_counter, _campaign_lock, db, worker, stops,
                   sendLog, waits, pushes, writeFailed>>

\* line 406: create_campaign_db (lines 229-249) commits the row, or raises
\* (database unreachable, or campaign_id UNIQUE violated) and the request
\* ends with the exception
SubmitCreate(r) ==
    /\ submit[r].pc = "create"
    /\ LET s == submit[r] IN
       \/ /\ s.cid \notin DOMAIN db
          /\ db' = [c \in DOMAIN db \cup {s.cid} |->
                      IF c = s.cid THEN NewRow(s.user, s.total) ELSE db[c]]
          /\ submit' = [submit EXCEPT ![r].pc = "start"]
          /\ UNCHANGED writeFailed
       \/ /\ submit' = [submit EXCEPT ![r] = [IdleSubmit EXCEPT !.pc = "done",
                                                 !.cid = s.cid, !.resp = "error"]]
          /\ writeFailed' = writeFailed \cup {s.cid}
          /\ UNCHANGED db
    /\ UNCHANGED <<_campaign_counter, _campaign_lock, CAMPAIGNS, worker, stops,
                   sendLog, waits, pushes>>

\* lines 409-416: the worker thread is started and the id returned
NewWorker == [pc |-> "begin", idx |-> 0, delay |-> 0, err |-> None, snap |-> NoSnap]

SubmitStart(r) ==
    /\ submit[r].pc = "start"
    /\ LET s == submit[r] IN
       /\ worker' = [c \in DOMAIN worker \cup {s.cid} |->
                       IF c = s.cid THEN NewWorker ELSE worker[c]]
       /\ sendLog' = [c \in DOMAIN sendLog \cup {s.cid} |->
                       IF c = s.cid THEN << >> ELSE sendLog[c]]
       /\ waits' = [c \in DOMAIN waits \cup {s.cid} |->
                       IF c = s.cid THEN 0 ELSE waits[c]]
       /\ pushes' = [c \in DOMAIN pushes \cup {s.cid} |->
                       IF c = s.cid THEN << >> ELSE pushes[c]]
       /\ submit' = [submit EXCEPT ![r] = [IdleSubmit EXCEPT !.pc = "done",
                                              !.speed = s.speed,
                                              !.cid = s.cid, !.resp = "ok"]]
    /\ UNCHANGED <<_campaign_counter, _campaign_lock, CAMPAIGNS, db, stops,
                   writeFailed>>

\* ------------------------------------------------- run_campaign (worker)
WorkerVars == <<_campaign_counter, _campaign_lock, submit, stops>>

\* lines 311-319: camp = CAMPAIGNS.get(campaign_id); delay; status = "running"
WorkerBegin(c) ==
    /\ c \in DOMAIN worker /\ worker[c].pc = "begin"
    /\ IF c \in DOMAIN CAMPAIGNS
       THEN /\ CAMPAIGNS' = [CAMPAIGNS EXCEPT ![c].status = "running"]
            /\ worker' = [worker EXCEPT ![c].pc = "snap_running",
                             ![c].delay = Delay(CAMPAIGNS[c].speed_per_minute)]
       ELSE /\ worker' = [worker EXCEPT ![c].pc = "done"]
            /\ UNCHANGED CAMPAIGNS
    /\ UNCHANGED <<WorkerVars, db, sendLog, waits, pushes, writeFailed>>

\* lines 253-278 inside the calls of lines 320, 349 and 356: the connection
\* is opened and the argument tuple is read from camp
AfterSnap(pc) ==
    CASE pc = "snap_running" -> "write_running"
      [] pc = "snap_stats" -> "write_stats"
      [] pc = "snap_final" -> "write_final"

WorkerSnap(c) ==
    /\ c \in DOMAIN worker
    /\ worker[c].pc \in {"snap_running", "snap_stats", "snap_final"}
    /\ worker' = [worker EXCEPT ![c].pc = AfterSnap(worker[c].pc),
                                ![c].snap = Snapshot(CAMPAIGNS[c])]
    /\ UNCHANGED <<WorkerVars, CAMPAIGNS, db, sendLog, waits, pushes, writeFailed>>

\* line 351: delay > 0 and idx < len(contacts) - 1
\* a pacing wait after every recipient, the last one included
MustSleepAlways(delay, idx, total) == delay > 0

MustSleep(delay, idx, total) == delay > 0 /\ idx < total - 1

\* a loop that does not move on after the last update
AfterWriteStuck(w, total) ==
    CASE w.pc = "write_running" -> [w EXCEPT !.pc = "check", !.snap = NoSnap]
      [] w.pc = "write_stats" ->
            IF MustSleep(w.delay, w.idx, total)
            THEN [w EXCEPT !.pc = "sleep", !.snap = NoSnap]
            ELSE [w EXCEPT !.pc = "check", !.snap = NoSnap]
      [] w.pc = "write_final" -> [w EXCEPT !.pc = "done", !.snap = NoSnap]

\* where the worker goes once the UPDATE of lines 320, 349 or 356 is committed
AfterWrite(w, total) ==
    CASE w.pc = "write_running" -> [w EXCEPT !.pc = "check", !.snap = NoSnap]
      [] w.pc = "write_stats" ->
            IF MustSleep(w.delay, w.idx, total)
            THEN [w EXCEPT !.pc = "sleep", !.snap = NoSnap]
            ELSE [w EXCEPT !.pc = "check", !.idx = w.idx + 1, !.snap = NoSnap]
      [] w.pc = "write_final" -> [w EXCEPT !.pc = "done", !.snap = NoSnap]

\* line 349: the counters a committed per-recipient update has carried
Pushed(log, w) ==
    IF w.pc = "write_stats"
    THEN Append(log, <<w.snap.processed, w.snap.sent, w.snap.failed>>)
    ELSE log

\* lines 256-283: the UPDATE is executed and committed, or psycopg2 raises;
\* run_campaign catches nothing there, so the exception ends the thread
WorkerWrite(c) ==
    /\ c \in DOMAIN worker
    /\ worker[c].pc \in {"write_running", "write_stats", "write_final"}
    /\ \/ /\ db' = UpdateStats(db, c, worker[c].snap)
          /\ worker' = [worker EXCEPT ![c] = AfterWrite(worker[c], CAMPAIGNS[c].total)]
          /\ pushes' = [pushes EXCEPT ![c] = Pushed(@, worker[c])]
          /\ UNCHANGED writeFailed
       \/ /\ worker' = [worker EXCEPT ![c].pc = "crashed", ![c].snap = NoSnap]
          /\ writeFailed' = writeFailed \cup {c}
          /\ UNCHANGED <<db, pushes>>
    /\ UNCHANGED <<WorkerVars, CAMPAIGNS, sendLog, waits>>

\* line 352: time.sleep(delay), then the next turn of the loop
WorkerSleep(c) ==
    /\ c \in DOMAIN worker /\ worker[c].pc = "sleep"
    /\ waits' = [waits EXCEPT ![c] = @ + 1]
    /\ worker' = [worker EXCEPT ![c].pc = "check", ![c].idx = @ + 1]
    /\ UNCHANGED <<WorkerVars, CAMPAIGNS, db, sendLog, pushes, writeFailed>>

\* a boundary check that never sees the stop
StopObservedNever(status) == FALSE

\* line 323: if camp["status"] == "stopped": break
StopObserved(status) == status = "stopped"

\* line 322: enumerate(contacts) has no further contact
\* a loop that leaves one recipient out
LoopExhaustedEarly(idx, total) == idx >= total - 1

LoopExhausted(idx, total) == idx >= total

\* lines 322-324: the loop head; the contacts are exhausted, or the status
\* is read
WorkerCheck(c) ==
    /\ c \in DOMAIN worker /\ worker[c].pc = "check"
    /\ worker' = [worker EXCEPT ![c].pc =
                    IF LoopExhausted(worker[c].idx, CAMPAIGNS[c].total) THEN "fin_check"
                    ELSE IF StopObserved(CAMPAIGNS[c].status) THEN "fin_check"
                    ELSE "send"]
    /\ UNCHANGED <<WorkerVars, CAMPAIGNS, db, sendLog, waits, pushes, writeFailed>>

\* a send loop with no except clause: the exception ends the thread
OnSendErrorAbort(w, e) == [w EXCEPT !.pc = "crashed"]

\* line 341: except Exception as e
OnSendError(w, e) == [w EXCEPT !.pc = "bounced", !.err = e]

\* lines 326-339 and 341-342: render, send_email_smtp; it returns and sent
\* is incremented, or it raises e and failed is incremented
WorkerSend(c) ==
    /\ c \in DOMAIN worker /\ worker[c].pc = "send"
    /\ \/ /\ sendLog' = [sendLog EXCEPT ![c] = Append(@, <<worker[c].idx, "ok">>)]
          /\ CAMPAIGNS' = [CAMPAIGNS EXCEPT ![c].sent = @ + 1]
          /\ worker' = [worker EXCEPT ![c].pc = "delivered"]
       \/ /\ sendLog' = [sendLog EXCEPT ![c] =
                          Append(@, <<worker[c].idx, ErrorText(worker[c].idx)>>)]
          /\ CAMPAIGNS' = [CAMPAIGNS EXCEPT ![c].failed = @ + 1]
          /\ worker' = [worker EXCEPT ![c] = OnSendError(@, ErrorText(worker[c].idx))]
    /\ UNCHANGED <<WorkerVars, db, waits, pushes, writeFailed>>

\* line 340: camp["delivered"] += 1
WorkerDelivered(c) ==
    /\ c \in DOMAIN worker /\ worker[c].pc = "delivered"
    /\ CAMPAIGNS' = [CAMPAIGNS EXCEPT ![c].delivered = @ + 1]
    /\ worker' = [worker EXCEPT ![c].pc = "processed"]
    /\ UNCHANGED <<WorkerVars, db, sendLog, waits, pushes, writeFailed>>

\* line 343: camp["bounced"] += 1
WorkerBounced(c) ==
    /\ c \in DOMAIN worker /\ worker[c].pc = "bounced"
    /\ CAMPAIGNS' = [CAMPAIGNS EXCEPT ![c].bounced = @ + 1]
    /\ worker' = [worker EXCEPT ![c].pc = "last_error"]
    /\ UNCHANGED <<WorkerVars, db, sendLog, waits, pushes, writeFailed>>

\* line 344: camp["last_error"] = str(e)
WorkerLastError(c) ==
    /\ c \in DOMAIN worker /\ worker[c].pc = "last_error"
    /\ CAMPAIGNS' = [CAMPAIGNS EXCEPT ![c].last_error = worker[c].err]
    /\ worker' = [worker EXCEPT ![c].pc = "processed", ![c].err = None]
    /\ UNCHANGED <<WorkerVars, db, sendLog, waits, pushes, writeFailed>>

\* line 346: camp["processed"] += 1
WorkerProcessed(c) ==
    /\ c \in DOMAIN worker /\ worker[c].pc = "processed"
    /\ CAMPAIGNS' = [CAMPAIGNS EXCEPT ![c].processed = @ + 1]
    /\ worker' = [worker EXCEPT ![c].pc = "snap_stats"]
    /\ UNCHANGED <<WorkerVars, db, sendLog, waits, pushes, writeFailed>>

\* line 354: if camp["status"] != "stopped"
WorkerFinCheck(c) ==
    /\ c \in DOMAIN worker /\ worker[c].pc = "fin_check"
    /\ worker' = [worker EXCEPT ![c].pc =
                    IF CAMPAIGNS[c].status # "stopped" THEN "set_finished"
                    ELSE "snap_final"]
    /\ UNCHANGED <<WorkerVars, CAMPAIGNS, db, sendLog, waits, pushes, writeFailed>>

\* line 355: camp["status"] = "finished"
WorkerSetFinished(c) ==
    /\ c \in DOMAIN worker /\ worker[c].pc = "set_finished"
    /\ CAMPAIGNS' = [CAMPAIGNS EXCEPT ![c].status = "finished"]
    /\ worker' = [worker EXCEPT ![c].pc = "snap_final"]
    /\ UNCHANGED <<WorkerVars, db, sendLog, waits, pushes, writeFailed>>

\* ------------------------------------------------------- stop_campaign
StopVars == <<_campaign_counter, _campaign_lock, submit, worker, sendLog, waits, pushes>>

\* line 462: if camp and camp["user"] == current_user
\* a stop that does not compare the owner
OwnsEntryAny(registry, campaign_id, current_user) ==
    campaign_id \in DOMAIN registry

OwnsEntry(registry, campaign_id, current_user) ==
    campaign_id \in DOMAIN registry /\ registry[campaign_id].user = current_user

\* line 463: camp["status"] = "stopped"
StoppedStatus(status) == "stopped"

\* the positions of run_campaign between the boundary check of line 323 and
\* the increment of processed of line 346: a recipient is being attempted
MidRecipient(campaign_id) ==
    /\ campaign_id \in DOMAIN worker
    /\ worker[campaign_id].pc \in {"send", "delivered", "bounced", "last_error", "processed"}

\* lines 459-463: a request arrives; the entry is looked up and, when it is
\* the caller's, its status is set
StopBegin(i) ==
    /\ stops[i].pc = "idle"
    /\ \A j \in 1..(i - 1) : stops[j].pc # "idle"
    /\ \E u \in Users, c \in PossibleIds :
         IF OwnsEntry(CAMPAIGNS, c, u)
         THEN /\ CAMPAIGNS' = [CAMPAIGNS EXCEPT ![c].status = StoppedStatus(@)]
              /\ stops' = [stops EXCEPT ![i] =
                             [@ EXCEPT !.pc = "snap", !.user = u, !.cid = c,
                                       !.at = CAMPAIGNS[c].processed,
                                       !.inflight = MidRecipient(c),
                                       !.was = CAMPAIGNS[c].status]]
         ELSE /\ stops' = [stops EXCEPT ![i] =
                             [@ EXCEPT !.pc = "set_db", !.user = u, !.cid = c]]
              /\ UNCHANGED CAMPAIGNS
    /\ UNCHANGED <<StopVars, db, writeFailed>>

\* line 464, lines 253-278: the argument tuple is read from camp
StopSnap(i) ==
    /\ stops[i].pc = "snap"
    /\ stops' = [stops EXCEPT ![i].pc = "write",
                              ![i].snap = Snapshot(CAMPAIGNS[stops[i].cid])]
    /\ UNCHANGED <<StopVars, CAMPAIGNS, db, writeFailed>>

\* line 464, lines 256-283: the UPDATE is committed, or raises (HTTP 500);
\* of a request that has returned, the campaign it stopped and the value of
\* processed at line 463 are kept
StopWrite(i) ==
    /\ stops[i].pc = "write"
    /\ stops' = [stops EXCEPT ![i].pc = "done", ![i].snap = NoSnap, ![i].user = None]
    /\ \/ /\ db' = UpdateStats(db, stops[i].cid, stops[i].snap)
          /\ UNCHANGED writeFailed
       \/ /\ writeFailed' = writeFailed \cup {stops[i].cid}
          /\ UNCHANGED db
    /\ UNCHANGED <<StopVars, CAMPAIGNS>>

\* line 467: set_campaign_db_status(campaign_id, current_user, "stopped")
\* commits, or raises (HTTP 500); of a request that has returned, the
\* campaign whose row it has updated is kept
StopSetDb(i) ==
    /\ stops[i].pc = "set_db"
    /\ \/ /\ db' = SetStatus(db, stops[i].cid, stops[i].user, "stopped")
          /\ stops' = [stops EXCEPT ![i] =
                [IdleStop EXCEPT !.pc = "done",
                                 !.cid = IF RowMatches(db, stops[i].cid, stops[i].user)
                                         THEN stops[i].cid ELSE None]]
          /\ UNCHANGED writeFailed
       \/ /\ stops' = [stops EXCEPT ![i] = [IdleStop EXCEPT !.pc = "done"]]
          /\ writeFailed' = IF RowMatches(db, stops[i].cid, stops[i].user)
                            THEN writeFailed \cup {stops[i].cid} ELSE writeFailed
          /\ UNCHANGED db
    /\ UNCHANGED <<StopVars, CAMPAIGNS>>

\* ------------------------------------------------------- specifications
Next ==
    \/ \E r \in Requests :
         \/ SubmitBegin(r) \/ SubmitAcquire(r) \/ SubmitLoad(r) \/ SubmitStore(r)
         \/ SubmitFormat(r) \/ SubmitRelease(r) \/ SubmitRegister(r)
         \/ SubmitCreate(r) \/ SubmitStart(r)
    \/ \E c \in DOMAIN worker :
         \/ WorkerBegin(c) \/ WorkerSnap(c) \/ WorkerWrite(c) \/ WorkerSleep(c)
         \/ WorkerCheck(c) \/ WorkerSend(c) \/ WorkerDelivered(c)
         \/ WorkerBounced(c) \/ WorkerLastError(c) \/ WorkerProcessed(c)
         \/ WorkerFinCheck(c) \/ WorkerSetFinished(c)
    \/ \E i \in StopRequests :
         StopBegin(i) \/ StopSnap(i) \/ StopWrite(i) \/ StopSetDb(i)

\* the life of one campaign: one submission, its worker and the stop requests
Init == InitWith(1, MaxStops)
Spec == Init /\ [][Next]_vars

\* one campaign and one stop request more: a requestStop issued twice
InitTwice == InitWith(1, MaxStops + 1)
SpecTwice == InitTwice /\ [][Next]_vars

\* The id allocation of lines 376-379 alone, called from several threads at
\* once: what _campaign_lock is there for.
ThreadedBegin(r) == Arrive(r, {DefaultSpeed})

InitSubmit == InitWith(MaxCallers, 0)

NextSubmit ==
    \E r \in Requests :
       \/ ThreadedBegin(r) \/ SubmitAcquire(r) \/ SubmitLoad(r) \/ SubmitStore(r)
       \/ SubmitFormat(r) \/ SubmitRelease(r)

SpecSubmit == InitSubmit /\ [][NextSubmit]_vars

\* MaxCallers campaigns of one recipient each, their workers and the stop
\* requests running side by side.
PairBegin(r) == LoopIdle /\ ArriveWith(r, {DefaultSpeed}, {1})

InitPair == InitWith(MaxCallers, MaxStops)

NextPair ==
    \/ \E r \in Requests :
         \/ PairBegin(r) \/ SubmitAcquire(r) \/ SubmitLoad(r) \/ SubmitStore(r)
         \/ SubmitFormat(r) \/ SubmitRelease(r) \/ SubmitRegister(r)
         \/ SubmitCreate(r) \/ SubmitStart(r)
    \/ \E c \in DOMAIN worker :
         \/ WorkerBegin(c) \/ WorkerSnap(c) \/ WorkerWrite(c) \/ WorkerSleep(c)
         \/ WorkerCheck(c) \/ WorkerSend(c) \/ WorkerDelivered(c)
         \/ WorkerBounced(c) \/ WorkerLastError(c) \/ WorkerProcessed(c)
         \/ WorkerFinCheck(c) \/ WorkerSetFinished(c)
    \/ \E i \in StopRequests :
         StopBegin(i) \/ StopSnap(i) \/ StopWrite(i) \/ StopSetDb(i)

SpecPair == InitPair /\ [][NextPair]_vars

\* One campaign submitted with any speed_per_minute the form accepts, and
\* its worker.
SpeedInputs == {-1, 0, 1, DefaultSpeed}

SpeedBegin(r) == LoopIdle /\ Arrive(r, SpeedInputs)

InitSpeed == InitWith(1, 0)

NextSpeed ==
    \/ \E r \in Requests :
         \/ SpeedBegin(r) \/ SubmitAcquire(r) \/ SubmitLoad(r) \/ SubmitStore(r)
         \/ SubmitFormat(r) \/ SubmitRelease(r) \/ SubmitRegister(r)
         \/ SubmitCreate(r) \/ SubmitStart(r)
    \/ \E c \in DOMAIN worker :
         \/ WorkerBegin(c) \/ WorkerSnap(c) \/ WorkerWrite(c) \/ WorkerSleep(c)
         \/ WorkerCheck(c) \/ WorkerSend(c) \/ WorkerDelivered(c)
         \/ WorkerBounced(c) \/ WorkerLastError(c) \/ WorkerProcessed(c)
         \/ WorkerFinCheck(c) \/ WorkerSetFinished(c)

SpecSpeed == InitSpeed /\ [][NextSpeed]_vars

\* ---------------------------------------------------------------- claims
\* run_campaign has returned (line 356) or ended with an exception
Terminated(c) == c \in DOMAIN worker /\ worker[c].pc \in {"done", "crashed"}

\* the stop requests that have executed line 463 on campaign c
OwnerStops(c) ==
    {i \in StopRequests : stops[i].cid = c /\ stops[i].at >= 0}

\* no stop request of its owner has reached campaign c: none has run line 463
\* on it, none has updated its row at line 467 or is about to
NeverStopped(c) ==
    \A i \in StopRequests :
       stops[i].cid = c => (stops[i].pc = "set_db" /\ stops[i].user # CAMPAIGNS[c].user)

\* C1: every snapshot campaign_status can return has
\* sent + failed == processed and processed <= total.
C1_SnapshotsConsistent ==
    \A u \in Users, c \in PossibleIds :
       LET r == campaign_status(c, u) IN
       r.status # "NotFound" =>
          /\ r.sent + r.failed = r.processed
          /\ r.processed <= r.total

\* C2: in the working-memory entry and in the durable record, status never
\* moves from running to queued, nor from finished or stopped to running or
\* queued.
Backward(old, new) ==
    \/ old = "running" /\ new = "queued"
    \/ old \in {"finished", "stopped"} /\ new \in {"running", "queued"}

C2_StatusMonotone ==
    [][/\ \A c \in DOMAIN CAMPAIGNS :
             ~Backward(CAMPAIGNS[c].status, CAMPAIGNS'[c].status)
       /\ \A c \in DOMAIN db : ~Backward(db[c].status, db'[c].status)]_vars

\* C3: finished and stopped are absorbing, in working memory and in the
\* durable record: no step takes a finished campaign to stopped (a stop
\* request on a finished campaign changes nothing) or a stopped one to
\* finished.
Swapped(old, new) ==
    \/ old = "finished" /\ new = "stopped"
    \/ old = "stopped" /\ new = "finished"

C3_TerminalAbsorbing ==
    [][/\ \A c \in DOMAIN CAMPAIGNS :
             /\ ~Swapped(CAMPAIGNS[c].status, CAMPAIGNS'[c].status)
             /\ CAMPAIGNS[c].status = "finished" => CAMPAIGNS'[c] = CAMPAIGNS[c]
       /\ \A c \in DOMAIN db :
             /\ ~Swapped(db[c].status, db'[c].status)
             /\ db[c].status = "finished" => db'[c] = db[c]]_vars

\* C4 as stated: once the worker has returned, a stop applied by the owner
\* when processed == k, 0 < k < total, has ended the campaign with status
\* stopped, processed == k and exactly k calls of the Send Channel.
C4_StopExact ==
    \A c \in DOMAIN worker : \A i \in OwnerStops(c) :
       (worker[c].pc = "done" /\ 0 < stops[i].at /\ stops[i].at < CAMPAIGNS[c].total) =>
          /\ CAMPAIGNS[c].status = "stopped"
          /\ CAMPAIGNS[c].processed = stops[i].at
          /\ Len(sendLog[c]) = stops[i].at

\* C4 as amended: a stop applied by the owner (line 463) when processed == k,
\* 0 < k < total, ends the campaign with status stopped and as many calls of
\* the Send Channel as processed, for recipients 1..processed in order, where
\* processed == k when the worker was between two recipients at that moment
\* and processed == k + 1 when it had passed the boundary check of recipient
\* k + 1 (that recipient is completed); no later recipient is attempted.
C4_StopAtBoundary ==
    \A c \in DOMAIN worker : \A i \in OwnerStops(c) :
       (Terminated(c) /\ 0 < stops[i].at /\ stops[i].at < CAMPAIGNS[c].total) =>
          /\ CAMPAIGNS[c].status = "stopped"
          /\ CAMPAIGNS[c].processed =
                IF stops[i].inflight THEN stops[i].at + 1 ELSE stops[i].at
          /\ Len(sendLog[c]) = CAMPAIGNS[c].processed
          /\ \A j \in 1..Len(sendLog[c]) : sendLog[c][j][1] = j - 1

\* a campaign of 3 recipients stopped at processed == 1 during the send to
\* recipient 2, whose worker has returned
C4_Witness ==
    \E c \in DOMAIN worker : \E i \in OwnerStops(c) :
       /\ worker[c].pc = "done"
       /\ CAMPAIGNS[c].total = 3
       /\ stops[i].at = 1
       /\ stops[i].inflight
       /\ CAMPAIGNS[c].processed = 2

\* the calls of the log that returned, and those that raised
Successes(log) == {j \in 1..Len(log) : log[j][2] = "ok"}
Failures(log) == {j \in 1..Len(log) : log[j][2] # "ok"}
MostRecentError(log) ==
    IF Failures(log) = {} THEN None
    ELSE log[CHOOSE j \in Failures(log) : \A k \in Failures(log) : k <= j][2]

\* C5: a campaign that is never stopped and whose storage calls all succeed
\* does not lose its worker, and when the worker returns every recipient has
\* been attempted exactly once, in order, status is finished, processed ==
\* total, sent and failed count the calls that returned and that raised, and
\* last_error is the most recent failure (None when there was none); the
\* durable record holds the same values.
C5_FailureIsolation ==
    \A c \in DOMAIN worker :
       (NeverStopped(c) /\ c \notin writeFailed) =>
          /\ worker[c].pc # "crashed"
          /\ worker[c].pc = "done" =>
               /\ CAMPAIGNS[c].status = "finished"
               /\ CAMPAIGNS[c].processed = CAMPAIGNS[c].total
               /\ Len(sendLog[c]) = CAMPAIGNS[c].total
               /\ \A j \in 1..Len(sendLog[c]) : sendLog[c][j][1] = j - 1
               /\ CAMPAIGNS[c].sent = Cardinality(Successes(sendLog[c]))
               /\ CAMPAIGNS[c].failed = Cardinality(Failures(sendLog[c]))
               /\ CAMPAIGNS[c].last_error = MostRecentError(sendLog[c])
               /\ campaign_status(c, CAMPAIGNS[c].user) =
                     [Snapshot(CAMPAIGNS[c]) EXCEPT !.status = "finished"]
                        @@ [total |-> CAMPAIGNS[c].total]

\* recipient 2 of 3 failed, the others succeeded, and the worker has returned
C5_Witness ==
    \E c \in DOMAIN worker :
       /\ NeverStopped(c) /\ c \notin writeFailed
       /\ worker[c].pc = "done"
       /\ sendLog[c] = <<<<0, "ok">>, <<1, ErrorText(1)>>, <<2, "ok">>>>

\* C6: once no start_campaign request is in progress, every campaign_id
\* with a working-memory entry has its durable row, and so has every
\* campaign_id with a worker.
C6_NoOrphanRegistration ==
    LoopIdle =>
       /\ \A c \in DOMAIN CAMPAIGNS : c \in DOMAIN db
       /\ \A c \in DOMAIN worker : c \in DOMAIN db

\* C7: a storage write that fails does not abort the send loop: a worker
\* that has ended has left the working-memory status finished or stopped
\* and, unless the campaign was stopped, has attempted every recipient.
C7_WriteFailureTolerated ==
    \A c \in DOMAIN worker :
       Terminated(c) =>
          /\ CAMPAIGNS[c].status \in {"finished", "stopped"}
          /\ NeverStopped(c) => Len(sendLog[c]) = CAMPAIGNS[c].total

\* C8: campaign_status by a user other than the owner returns NotFound, and
\* no step of a stop request by a user other than the owner changes the
\* campaign's working-memory entry or its durable row.
Requester(i) == IF stops[i].pc = "idle" THEN stops'[i].user ELSE stops[i].user
Target(i) == IF stops[i].pc = "idle" THEN stops'[i].cid ELSE stops[i].cid

NonOwnerStopStep(i, c) ==
    /\ stops'[i] # stops[i]
    /\ Target(i) = c
    /\ Requester(i) # CAMPAIGNS[c].user

C8_OwnershipIsolation ==
    /\ [](\A c \in DOMAIN CAMPAIGNS : \A u \in Users :
            u # CAMPAIGNS[c].user => campaign_status(c, u) = NotFound)
    /\ [][\A i \in StopRequests : \A c \in DOMAIN CAMPAIGNS :
            NonOwnerStopStep(i, c) =>
               /\ CAMPAIGNS'[c] = CAMPAIGNS[c]
               /\ c \in DOMAIN db => db'[c] = db[c]]_vars

\* a stop request of another user is about to run line 467 on a campaign
\* whose row exists and whose worker is sending
C8_Witness ==
    \E i \in StopRequests : \E c \in DOMAIN db :
       /\ stops[i].pc = "set_db"
       /\ stops[i].cid = c
       /\ stops[i].user # db[c].username
       /\ db[c].status = "running"

\* C9: requestStop is idempotent: once the worker has returned and a first
\* stop request of the owner (one that ran line 463) has returned, with no
\* other in progress, the run without a second request stays as it is; a
\* second request changes neither the status nor the counters, in working
\* memory or in the durable record.
OutcomeOf(registry, table, c) ==
    <<registry[c], IF c \in DOMAIN table THEN table[c] ELSE NotFound>>

C9_StopIdempotent ==
    [][\A c \in DOMAIN worker :
          (/\ worker[c].pc = "done"
           /\ \E i \in OwnerStops(c) : stops[i].pc = "done"
           /\ \A j \in StopRequests : stops[j].pc \in {"idle", "done"})
          => OutcomeOf(CAMPAIGNS', db', c) = OutcomeOf(CAMPAIGNS, db, c)]_vars

\* C10: no two start_campaign calls are assigned the same campaign_id.
C10_UniqueIds ==
    \A r1, r2 \in Requests :
       (r1 # r2 /\ submit[r1].cid # None /\ submit[r2].cid # None) =>
          submit[r1].cid # submit[r2].cid

\* two calls by the same user have both been assigned their id
C10_Witness ==
    \E r1, r2 \in Requests :
       /\ r1 # r2
       /\ submit[r1].cid # None /\ submit[r2].cid # None
       /\ submit[r1].user = submit[r2].user

\* C11: while storage writes succeed, the durable record lags the
\* working-memory entry by at most one recipient: once the row exists,
\* durable.processed <= memory.processed <= durable.processed + 1.
C11_LagAtMostOne ==
    \A c \in DOMAIN db :
       (c \in DOMAIN CAMPAIGNS /\ writeFailed = {}) =>
          /\ db[c].processed <= CAMPAIGNS[c].processed
          /\ CAMPAIGNS[c].processed <= db[c].processed + 1

\* the stop requests that have executed line 463 on campaign c while its
\* status was st
StopsApplied(c, st) == {i \in OwnerStops(c) : stops[i].was = st}

\* C12: a stop applied while the campaign is still queued prevents every
\* send: the worker calls the send channel zero times and the status it
\* terminates with is stopped.
C12_QueuedStopPreventsSends ==
    \A c \in DOMAIN worker :
       StopsApplied(c, "queued") # {} =>
          /\ Len(sendLog[c]) = 0
          /\ worker[c].pc = "done" => CAMPAIGNS[c].status = "stopped"

\* C13: once a stop has set the status of a running campaign to stopped,
\* at most one further send completes, the one whose boundary check had
\* already passed, processed grows by at most one, and no boundary check
\* after the stop, hence none that follows a pacing wait, lets another
\* send through.
SendStep(c) == Len(sendLog'[c]) > Len(sendLog[c])

C13_OnlyInFlightSend ==
    \A c \in DOMAIN worker :
       \A i \in StopsApplied(c, "running") :
          /\ SendStep(c) => (stops[i].inflight /\ Len(sendLog[c]) = stops[i].at)
          /\ worker[c].pc = "check" => worker'[c].pc # "send"
          /\ CAMPAIGNS'[c].processed <= stops[i].at + 1
          /\ CAMPAIGNS[c].processed = stops[i].at + 1 => stops[i].inflight

C13_StopBoundsRunning == [][C13_OnlyInFlightSend]_vars

C13_Witness ==
    \E c \in DOMAIN worker :
       \E i \in StopsApplied(c, "running") :
          /\ stops[i].inflight
          /\ Len(sendLog[c]) = stops[i].at + 1
          /\ CAMPAIGNS[c].processed = stops[i].at + 1
          /\ waits[c] = stops[i].at + 1
          /\ worker[c].pc = "done"
          /\ CAMPAIGNS[c].processed < CAMPAIGNS[c].total

\* the requests in flight: a stop request between line 463 and its return
StopsInFlight == {i \in StopRequests : stops[i].pc \notin {"idle", "done"}}

Terminal == {"finished", "stopped"}

\* C14: under fair scheduling, when every send returns and every storage
\* write succeeds, every submitted campaign terminates with status finished
\* or stopped in the working-memory entry and in the durable record: once
\* its worker has returned and no request is in flight, both are terminal.
C14_TerminatesTerminal ==
    \A c \in DOMAIN worker :
       (worker[c].pc = "done" /\ StopsInFlight = {} /\ writeFailed = {}) =>
          /\ CAMPAIGNS[c].status \in Terminal
          /\ db[c].status \in Terminal

\* C15: sends are attempted in strictly increasing index order, each
\* recipient at most once: the attempted recipients are always the prefix
\* of the list of length processed or processed + 1.
C15_SendsArePrefix ==
    \A c \in DOMAIN sendLog :
       /\ \A j \in 1..Len(sendLog[c]) : sendLog[c][j][1] = j - 1
       /\ Len(sendLog[c]) \in {CAMPAIGNS[c].processed, CAMPAIGNS[c].processed + 1}
       /\ Len(sendLog[c]) <= CAMPAIGNS[c].total

C15_Witness ==
    \E c \in DOMAIN sendLog :
       /\ Len(sendLog[c]) = 3
       /\ sendLog[c][2][2] # "ok"
       /\ CAMPAIGNS[c].processed = 2

\* the counters after the first j attempts of a log of sends
CountersAfter(log, j) ==
    <<j, Cardinality(Successes(SubSeq(log, 1, j))),
         Cardinality(Failures(SubSeq(log, 1, j)))>>

C17_FinishedState ==
    \A c \in DOMAIN CAMPAIGNS :
       /\ CAMPAIGNS[c].status = "finished" =>
             /\ CAMPAIGNS[c].processed = CAMPAIGNS[c].total
             /\ Len(sendLog[c]) = CAMPAIGNS[c].total
       /\ (c \in DOMAIN db /\ db[c].status = "finished") =>
             db[c].processed = db[c].total

C17_FinishedStep ==
    \A c \in DOMAIN CAMPAIGNS :
       (CAMPAIGNS'[c].status = "finished" /\ CAMPAIGNS[c].status # "finished") =>
          /\ worker[c].pc = "set_finished"
          /\ worker[c].idx >= CAMPAIGNS[c].total

C17_FinishedMeansAll == []C17_FinishedState /\ [][C17_FinishedStep]_vars

\* a stop arrived after the last boundary check: the campaign is finished in
\* memory and in the durable record with every recipient attempted
C17_Witness ==
    \E c \in DOMAIN db :
       /\ c \in DOMAIN CAMPAIGNS
       /\ CAMPAIGNS[c].status = "finished"
       /\ db[c].status = "finished"
       /\ OwnerStops(c) # {}
       /\ db[c].processed = 3

\* the counters and last_error of an entry
Counters(e) == <<e.processed, e.sent, e.failed, e.delivered, e.bounced, e.last_error>>

\* the stop requests that take a step
SteppingStops == {i \in StopRequests : stops'[i] # stops[i]}

\* C18: the counters and last_error of a campaign are changed only by its
\* own worker; a stop request changes nothing but the status, and only of
\* the campaign it names for its owner; steps of submissions, of other
\* campaigns' workers and of other stop requests leave the entry unchanged.
C18_FrameStep ==
    \A c \in DOMAIN CAMPAIGNS :
       /\ Counters(CAMPAIGNS'[c]) # Counters(CAMPAIGNS[c]) =>
             /\ c \in DOMAIN worker /\ worker'[c] # worker[c]
             /\ stops' = stops
       /\ SteppingStops # {} =>
             /\ CAMPAIGNS'[c] = [CAMPAIGNS[c] EXCEPT !.status = CAMPAIGNS'[c].status]
             /\ CAMPAIGNS'[c] # CAMPAIGNS[c] =>
                   \A i \in SteppingStops :
                      /\ stops'[i].cid = c
                      /\ stops'[i].user = CAMPAIGNS[c].user
       /\ CAMPAIGNS'[c] # CAMPAIGNS[c] =>
             /\ submit' = submit
             /\ \A d \in DOMAIN worker : d # c => worker'[d] = worker[d]
             /\ \A d \in DOMAIN CAMPAIGNS : d # c => CAMPAIGNS'[d] = CAMPAIGNS[d]

C18_Frame == [][C18_FrameStep]_vars

\* two campaigns side by side: one stopped by its owner with its recipient
\* in flight, the other finished
C18_Witness ==
    \E c, d \in DOMAIN worker :
       /\ c # d
       /\ OwnerStops(c) # {}
       /\ CAMPAIGNS[c].status = "stopped" /\ CAMPAIGNS[c].processed = 1
       /\ CAMPAIGNS[d].status = "finished" /\ CAMPAIGNS[d].processed = 1
       /\ worker[c].pc = "done" /\ worker[d].pc = "done"

\* C19: the stored speed is at least 1 whatever integer is submitted, so the
\* worker's delay is strictly positive and the zero-delay branch of line 317
\* is never taken.
C19_SpeedClamped ==
    /\ \A c \in DOMAIN CAMPAIGNS : CAMPAIGNS[c].speed_per_minute >= 1
    /\ \A c \in DOMAIN worker :
          worker[c].pc # "begin" => worker[c].delay > 0
    /\ \A r \in Requests :
          (submit[r].pc = "done" /\ submit[r].resp = "ok") =>
             CAMPAIGNS[submit[r].cid].speed_per_minute =
                IF submit[r].speed >= 1 THEN submit[r].speed ELSE 1

\* a campaign submitted with speed 0 paces its sends a minute apart
C19_Witness ==
    \E r \in Requests :
       /\ submit[r].pc = "done" /\ submit[r].speed = 0
       /\ submit[r].cid \in DOMAIN worker
       /\ worker[submit[r].cid].delay = 60000
       /\ waits[submit[r].cid] = 1

\* C20: once the worker has returned and every stop request for the campaign
\* has returned, all writes having succeeded, the durable record equals the
\* working-memory entry in status, counters and last_error.
C20_FinalConsistency ==
    \A c \in DOMAIN worker :
       (worker[c].pc = "done" /\ StopsInFlight = {} /\ writeFailed = {}) =>
          campaign_status(c, CAMPAIGNS[c].user) =
             Snapshot(CAMPAIGNS[c]) @@ [total |-> CAMPAIGNS[c].total]
====
